---- MODULE Spec2Model ----
(***************************************************************************)
(* Model of inference/UNetInferenceAgent.py: the UNetInferenceAgent class, *)
(* its constructor and its two inference entry points,                     *)
(* single_volume_inference and single_volume_inference_unpadded.           *)
(*                                                                         *)
(* Arrays (NumPy arrays and PyTorch tensors) are records                   *)
(*   [shape |-> <<n1, ..., nk>>, at |-> [index tuples -> values]]          *)
(* with 0-based indices as in the source.  Array objects live in a heap    *)
(* keyed by reference, so that aliasing and in-place writes are visible.   *)
(***************************************************************************)
EXTENDS Integers, Sequences, FiniteSets, TLC

\* ------------------------------------------------------------------ bounds
\* largest depth (axis 0) of a caller's volume
MaxD == 2
\* largest height / width of a caller's volume
MaxHW == 2
\* largest patch_size an agent is constructed with
MaxP == 2
\* largest number of output classes of a model supplied by the caller
MaxClasses == 3
\* number of inference calls made on one agent
MaxCalls == 2

\* UNet(num_classes=3): the class count of the default model
DefaultClasses == 3

\* the execution target agents are constructed for (a model starts on the cpu)
Devices == {"cuda"}

\* two settings of a network's parameters (its weights), as opaque values
Weights == {0, 1}

\* what training-only stochastic regularisation can draw in one forward pass:
\* no perturbation, or a perturbation
Noises == {0, 1}

\* ------------------------------------------------------------------ arrays
\* A function held as a table of its values: f @@ <<>> equals f, and has every
\* value computed once instead of on each application.
Table(f) == f @@ <<>>

RECURSIVE Idx(_)
\* all index tuples of an array of the given shape (empty when an extent is 0)
Idx(shape) ==
    IF shape = <<>> THEN {<<>>}
    ELSE {<<h>> \o t : h \in 0..(Head(shape) - 1), t \in Idx(Tail(shape))}

\* the array of the given shape holding f[i] at index i
Array(shape, f) == [shape |-> shape, at |-> Table(f)]

\* np.zeros(shape)
np_zeros(shape) == Array(shape, [i \in Idx(shape) |-> 0])

\* volume[slice_ix,:,:] : the 2-D view of a 3-D array at one index of axis 0
Slice2D(a, ix) ==
    Array(Tail(a.shape), [i \in Idx(Tail(a.shape)) |-> a.at[<<ix>> \o i]])

\* ----------------------------------------------------- single-precision values
\* A float is a reduced fraction n/d (d > 0), or nan, +inf, -inf.
RECURSIVE GCD(_, _)
GCD(a, b) == IF b = 0 THEN a ELSE GCD(b, a % b)

Abs(x) == IF x < 0 THEN -x ELSE x

Num(n, d) ==
    LET g == GCD(Abs(n), Abs(d))
        s == IF d < 0 THEN -1 ELSE 1
    IN  [k |-> "num", n |-> (s * n) \div g, d |-> (s * d) \div g]

NaN    == [k |-> "nan", n |-> 0, d |-> 1]
PosInf == [k |-> "inf", n |-> 1, d |-> 1]
NegInf == [k |-> "inf", n |-> -1, d |-> 1]

\* x / m in IEEE arithmetic for integer-valued x and m: division by zero does
\* not raise, it yields nan (0/0) or a signed infinity
FloatDiv(x, m) ==
    IF m # 0 THEN Num(x, m)
    ELSE IF x = 0 THEN NaN
    ELSE IF x > 0 THEN PosInf ELSE NegInf

\* np.max(a) of a non-empty integer-valued array
np_max(a) == CHOOSE m \in {a.at[i] : i \in Idx(a.shape)} :
                 \A i \in Idx(a.shape) : a.at[i] <= m

\* volume[slice_ix,:,:].astype(np.single) / np.max(volume[slice_ix,:,:])
Normalize(s) ==
    LET m == np_max(s)
    IN  Array(s.shape, [i \in Idx(s.shape) |-> FloatDiv(s.at[i], m)])

\* torch.from_numpy(slc).unsqueeze(0).unsqueeze(0): shape [H,W] -> [1,1,H,W]
Unsqueeze2(s) ==
    Array(<<1, 1>> \o s.shape,
          [i \in Idx(<<1, 1>> \o s.shape) |-> s.at[SubSeq(i, 3, Len(i))]])

\* ------------------------------------------------------------- tensor calls
FloatLess(a, b) ==
    IF a.k = "nan" \/ b.k = "nan" THEN FALSE
    ELSE IF a.k = "inf" /\ b.k = "inf" THEN a.n < b.n
    ELSE IF a.k = "inf" THEN a.n < 0
    ELSE IF b.k = "inf" THEN b.n > 0
    ELSE a.n * b.d < b.n * a.d

RECURSIVE Expand(_, _)
\* the index into t of the element that squeeze(t) holds at index i
Expand(shape, i) ==
    IF shape = <<>> THEN <<>>
    ELSE IF Head(shape) = 1 THEN <<0>> \o Expand(Tail(shape), i)
    ELSE <<Head(i)>> \o Expand(Tail(shape), Tail(i))

\* np.squeeze(t): drops EVERY axis of extent 1 (no axis argument is given)
np_squeeze(t) ==
    LET s == SelectSeq(t.shape, LAMBDA n : n # 1)
    IN  Array(s, [i \in Idx(s) |-> t.at[Expand(t.shape, i)]])

\* torch.argmax(t, dim=0): for each position of the remaining axes the first
\* index along axis 0 holding the maximum, a nan counting as the maximum; a
\* 0-dimensional tensor gives 0
torch_argmax(t) ==
    IF t.shape = <<>> THEN Array(<<>>, [i \in Idx(<<>>) |-> 0])
    ELSE
      LET n == Head(t.shape)
          rest == Tail(t.shape)
          val(c, i) == t.at[<<c>> \o i]
          IsMax(c, i) ==
              IF \E e \in 0..(n - 1) : val(e, i).k = "nan"
              THEN val(c, i).k = "nan"
              ELSE \A e \in 0..(n - 1) : ~FloatLess(val(c, i), val(e, i))
          First(i) == CHOOSE c \in 0..(n - 1) :
                          /\ IsMax(c, i)
                          /\ \A e \in 0..(c - 1) : ~IsMax(e, i)
      IN  Array(rest, [i \in Idx(rest) |-> First(i)])

\* NumPy broadcasting of a value of shape src into a target of shape dst
CanBroadcast(src, dst) ==
    /\ Len(src) <= Len(dst)
    /\ \A k \in 1..Len(src) :
          src[k] = 1 \/ src[k] = dst[k + Len(dst) - Len(src)]

BroadcastIdx(src, dst, j) ==
    [k \in 1..Len(src) |->
        IF src[k] = 1 THEN 0 ELSE j[k + Len(dst) - Len(src)]]

\* slices[:,:,:] = value : the labels written to every slice of the mask
SetSlice_every(a, ix, value) ==
    Array(a.shape,
          [i \in Idx(a.shape) |->
              value.at[BroadcastIdx(value.shape, Tail(a.shape), Tail(i))]])

\* slices[slice_ix,:,:] = value   (in-place write with broadcasting)
SetSlice(a, ix, value) ==
    Array(a.shape,
          [i \in Idx(a.shape) |->
              IF i[1] = ix
              THEN value.at[BroadcastIdx(value.shape, Tail(a.shape), Tail(i))]
              ELSE a.at[i]])

\* utils.med_reshape(image, new_shape): a new zero-filled array of new_shape
\* holding the image at the low corner; extents beyond new_shape are cropped
med_reshape(image, shape) ==
    Array(shape,
          [i \in Idx(shape) |->
              IF \A k \in 1..Len(shape) : i[k] < image.shape[k]
              THEN image.at[i] ELSE 0])

\* ------------------------------------------------------------------ model
\* The network: forward(x) for x of shape [1,1,H,W] gives per-class scores of
\* shape [1,num_classes,H,W], a deterministic function of the parameters and
\* the input in evaluation mode; in training mode stochastic regularisation
\* perturbs it by the drawn noise.  A nan or infinite input pixel contaminates
\* every score.
Code(f) == f.n + 2 * f.d

SumCodes(x) ==
    LET ix == Idx(x.shape)
        RECURSIVE Sum(_)
        Sum(S) == IF S = {} THEN 0
                  ELSE LET e == CHOOSE e \in S : TRUE
                       IN  Code(x.at[e]) + Sum(S \ {e})
    IN  Sum(ix)

forward(m, noise, x) ==
    LET H == x.shape[3]
        W == x.shape[4]
        shape == <<1, m.num_classes, H, W>>
        bad == \E i \in Idx(x.shape) : x.at[i].k # "num"
        sum == SumCodes(x)
        score(c, h, w) ==
            ( m.weights * (c + 1) + Code(x.at[<<0, 0, h, w>>]) * (c + 2)
              + sum + h * (c + 1) + noise * (c + w + 1) ) % 5
    IN  Array(shape,
              [i \in Idx(shape) |->
                  IF bad THEN NaN ELSE Num(score(i[2], i[3], i[4]), 1)])

\* -------------------------------------------------------------- the inputs
Kinds == {"zero", "ramp", "dim"}

\* the intensity of pixel (h, w) of a slice of width W: an all-zero slice, a
\* slice of distinct positive values, or a slice whose maximum is 0 with
\* negative values elsewhere
Pixel(kind, h, w, W) ==
    IF kind = "zero" THEN 0
    ELSE IF kind = "ramp" THEN h * W + w + 1
    ELSE 0 - (h * W + w)

VolumeOf(D, H, W, kinds) ==
    Array(<<D, H, W>>,
          [i \in Idx(<<D, H, W>>) |-> Pixel(kinds[i[1] + 1], i[2], i[3], W)])

\* the volumes a caller passes: every depth 0..MaxD, every height and width
\* 1..MaxHW, every slice of one of the three kinds
Volumes ==
    UNION { { VolumeOf(D, H, W, ks) : ks \in [1..D -> Kinds] } :
              <<D, H, W>> \in (0..MaxD) \X (1..MaxHW) \X (1..MaxHW) }

\* a volume already shaped to the patch size: what single_volume_inference is
\* for (on any other volume what the network does is not defined)
Conformant(v, p) == v.shape[2] = p /\ v.shape[3] = p

\* parameter_file_path: '' (none), a path that cannot be read, or a file of
\* serialized parameters of a network with the given class count
NoPath == [given |-> FALSE, exists |-> FALSE, num_classes |-> 0, weights |-> 0]

Paths ==
    {NoPath}
    \cup {[given |-> TRUE, exists |-> FALSE, num_classes |-> 0, weights |-> 0]}
    \cup [given : {TRUE}, exists : {TRUE},
          num_classes : 1..MaxClasses, weights : Weights]

\* a model object: a torch.nn.Module is in training mode when created and
\* lives on the cpu until moved
Models ==
    [num_classes : 1..MaxClasses, weights : Weights,
     training : BOOLEAN, device : {"cpu"}]

\* the model argument: <<>> for None, <<m>> for a supplied instance
ModelArgs == {<<>>} \cup {<<m>> : m \in Models}

NoRef == <<0, "none">>

VARIABLES
    phase,      \* "none", "ready" (agent constructed), "failed" (__init__ raised)
    self,       \* the agent's attributes patch_size and device
    model,      \* self.model: the model object the agent shares with its caller
    given,      \* the arguments __init__ was called with
    ctorLog,    \* the calls __init__ made on the model, in order
    raised,     \* the exception surfaced to the caller, "none" if none
    heap,       \* the arrays of the call in progress, by reference
    pc,         \* "idle", "loop", "done", "raised"
    entry,      \* the entry point of the call: "infer", "unpadded", "none"
    arg,        \* reference of the caller's volume
    arg0,       \* the caller's volume as it was when the call began
    volume,     \* the local name volume (a reference)
    slices,     \* the local name slices (a reference)
    slice_ix,   \* the loop variable
    ret,        \* reference of the returned mask
    opLog,      \* the calls made on the model during the call, in order
    ncalls,     \* inference calls begun so far
    earlier     \* references of the masks returned by earlier calls

vars == <<phase, self, model, given, ctorLog, raised, heap, pc, entry, arg, arg0,
          volume, slices, slice_ix, ret, opLog, ncalls, earlier>>

ctorVars == <<phase, self, model, given, ctorLog, raised>>
callVars == <<heap, pc, entry, arg, arg0, volume, slices, slice_ix, ret, opLog,
              ncalls, earlier>>

NoModel == [num_classes |-> 0, weights |-> 0, training |-> FALSE, device |-> "none"]
NoSelf  == [patch_size |-> 0, device |-> "none"]
NoArray == np_zeros(<<0>>)

\* ------------------------------------------------------------ construction
\* UNet(num_classes=3): a new network with randomly initialised parameters
UNet(w) ==
    [num_classes |-> DefaultClasses, weights |-> w, training |-> TRUE,
     device |-> "cpu"]

\* the model in use after lines 17-22
ModelInUse(m, w) == IF m = <<>> THEN UNet(w) ELSE m[1]

\* torch.load(path) / load_state_dict: which exception, if any, line 25 raises
LoadError(path, m) ==
    IF ~path.exists THEN "FileNotFoundError"
    ELSE IF path.num_classes # m.num_classes THEN "RuntimeError"
    ELSE "none"

\* __init__ moving the model to the device before it loads the parameters
Construct_to_first(path, m, device, patch_size, w) ==
    LET m0   == [ModelInUse(m, w) EXCEPT !.device = device]
        log0 == (IF m = <<>> THEN <<"UNet">> ELSE <<>>) \o <<"to">>
        err  == IF path.given THEN LoadError(path, m0) ELSE "none"
        log1 == IF path.given THEN log0 \o <<"load_state_dict">> ELSE log0
        m1   == IF path.given /\ err = "none"
                THEN [m0 EXCEPT !.weights = path.weights] ELSE m0
    IN  IF err # "none"
        THEN [phase |-> "failed", self |-> NoSelf, model |-> m1,
              log |-> log1, raised |-> err]
        ELSE [phase |-> "ready",
              self |-> [patch_size |-> patch_size, device |-> device],
              model |-> m1, log |-> log1, raised |-> "none"]

\* __init__(parameter_file_path, model, device, patch_size), w being the random
\* initialisation of a default network: the outcome of the whole constructor
Construct(path, m, device, patch_size, w) ==
    LET m0   == ModelInUse(m, w)
        log0 == IF m = <<>> THEN <<"UNet">> ELSE <<>>
        err  == IF path.given THEN LoadError(path, m0) ELSE "none"
        log1 == IF path.given THEN log0 \o <<"load_state_dict">> ELSE log0
        m1   == IF path.given /\ err = "none"
                THEN [m0 EXCEPT !.weights = path.weights] ELSE m0
    IN  IF err # "none"
        THEN [phase |-> "failed", self |-> NoSelf, model |-> m1,
              log |-> log1, raised |-> err]
        ELSE [phase |-> "ready",
              self |-> [patch_size |-> patch_size, device |-> device],
              model |-> [m1 EXCEPT !.device = device],
              log |-> log1 \o <<"to">>, raised |-> "none"]

UNetInferenceAgent_init ==
    /\ phase = "none"
    /\ \E path \in Paths, m \in ModelArgs, device \in Devices,
          patch_size \in 1..MaxP, w \in Weights :
          LET r == Construct(path, m, device, patch_size, w) IN
          /\ phase' = r.phase
          /\ self' = r.self
          /\ model' = r.model
          /\ ctorLog' = r.log
          /\ raised' = r.raised
          /\ given' = [path |-> path, model |-> m, device |-> device,
                       patch_size |-> patch_size]
    /\ UNCHANGED callVars

\* --------------------------------------------------------------- inference
\* the depth taken from the patch size instead of the volume
new_shape_cubic(v, patch_size) == <<patch_size, patch_size, patch_size>>

\* line 41: new_shape = (volume.shape[0], self.patch_size, self.patch_size)
new_shape(v, patch_size) == <<v.shape[1], patch_size, patch_size>>

\* the slice divided by the maximum of the whole volume: np.max(volume)
slc_by_volume_max(v, ix) ==
    LET s == Slice2D(v, ix)
        m == np_max(v)
    IN  Array(s.shape, [i \in Idx(s.shape) |-> FloatDiv(s.at[i], m)])

\* lines 86-95 (and 49-58): the label map of one slice of the volume v
\*   slc = volume[slice_ix,:,:].astype(np.single) / np.max(volume[slice_ix,:,:])
\*   slc_tensor = torch.from_numpy(slc).unsqueeze(0).unsqueeze(0).to(device)
\*   pred = self.model(slc_tensor)
\*   torch.argmax(np.squeeze(pred.cpu().detach()), dim=0)
slc(v, ix) == Normalize(Slice2D(v, ix))

SliceLabels(m, noise, v, ix) ==
    torch_argmax(np_squeeze(forward(m, noise, Unsqueeze2(slc(v, ix)))))

RECURSIVE RunLoop(_, _, _, _)
\* lines 84-97 run from slice_ix = ix to the end on a model in evaluation mode
RunLoop(m, v, out, ix) ==
    IF ix >= v.shape[1] THEN out
    ELSE RunLoop(m, v, SetSlice(out, ix, SliceLabels(m, 0, v, ix)), ix + 1)

\* lines 72-97 as a function: the mask single_volume_inference(v) returns
InferMask(m, v) == RunLoop(m, v, np_zeros(v.shape), 0)

\* the noise a forward pass can draw: none once the model is in evaluation mode
NoiseOf(m) == IF m.training THEN Noises ELSE {0}

Event(op, ix, training, labels) ==
    [op |-> op, ix |-> ix, training |-> training, labels |-> labels]

\* what both entry points do when a call begins, besides their own first lines
BeginCall(name, v) ==
    /\ phase = "ready"
    /\ pc = "idle"
    /\ ncalls < MaxCalls
    /\ ncalls' = ncalls + 1
    /\ entry' = name
    /\ arg' = <<ncalls + 1, "arg">>
    /\ arg0' = v
    /\ slice_ix' = 0
    /\ ret' = NoRef
    /\ earlier' = earlier
    /\ pc' = "loop"
    /\ UNCHANGED <<phase, self, given, ctorLog, raised>>

\* single_volume_inference without the call of model.eval()
call_single_volume_inference_no_eval ==
    \E v \in Volumes :
        /\ Conformant(v, self.patch_size)
        /\ BeginCall("infer", v)
        /\ model' = model
        /\ opLog' = <<Event("eval", 0, model.training, NoArray)>>
        /\ volume' = arg'
        /\ slices' = <<ncalls + 1, "slices">>
        /\ heap' = (arg' :> v) @@ (slices' :> np_zeros(v.shape))

\* single_volume_inference writing the labels into the volume it was given
\* (slices = volume in place of slices = np.zeros(volume.shape))
call_single_volume_inference_in_place ==
    \E v \in Volumes :
        /\ Conformant(v, self.patch_size)
        /\ BeginCall("infer", v)
        /\ model' = [model EXCEPT !.training = FALSE]
        /\ opLog' = <<Event("eval", 0, model.training, NoArray)>>
        /\ volume' = arg'
        /\ slices' = arg'
        /\ heap' = (arg' :> v)

\* single_volume_inference(volume), lines 72-82: model.eval(), then the mask
\* is allocated with the volume's shape
call_single_volume_inference ==
    \E v \in Volumes :
        /\ Conformant(v, self.patch_size)
        /\ BeginCall("infer", v)
        /\ model' = [model EXCEPT !.training = FALSE]
        /\ opLog' = <<Event("eval", 0, model.training, NoArray)>>
        /\ volume' = arg'
        /\ slices' = <<ncalls + 1, "slices">>
        /\ heap' = (arg' :> v) @@ (slices' :> np_zeros(v.shape))

\* single_volume_inference_unpadded without the call of med_reshape
call_single_volume_inference_unpadded_as_given ==
    \E v \in Volumes :
        /\ BeginCall("unpadded", v)
        /\ model' = model
        /\ opLog' = <<>>
        /\ volume' = arg'
        /\ slices' = <<ncalls + 1, "slices">>
        /\ heap' = (arg' :> v) @@ (slices' :> np_zeros(v.shape))

\* single_volume_inference_unpadded(volume), lines 41-45: the local name volume
\* is rebound to the reshaped array, and the mask is allocated with its shape
call_single_volume_inference_unpadded ==
    \E v \in Volumes :
        LET reshaped == med_reshape(v, new_shape(v, self.patch_size)) IN
        /\ BeginCall("unpadded", v)
        /\ model' = model
        /\ opLog' = <<>>
        /\ volume' = <<ncalls + 1, "reshaped">>
        /\ slices' = <<ncalls + 1, "slices">>
        /\ heap' = (arg' :> v) @@ (volume' :> reshaped)
                     @@ (slices' :> np_zeros(reshaped.shape))

\* one iteration of  for slice_ix in range(volume.shape[0])
LoopBody(name) ==
    /\ pc = "loop"
    /\ entry = name
    /\ slice_ix < heap[volume].shape[1]
    /\ \E noise \in NoiseOf(model) :
          LET labels == SliceLabels(model, noise, heap[volume], slice_ix) IN
          /\ opLog' = Append(opLog, Event("forward", slice_ix, model.training, labels))
          /\ IF CanBroadcast(labels.shape, Tail(heap[slices].shape))
             THEN /\ heap' = [heap EXCEPT ![slices] = SetSlice(@, slice_ix, labels)]
                  /\ slice_ix' = slice_ix + 1
                  /\ pc' = "loop"
             ELSE /\ pc' = "raised"
                  /\ UNCHANGED <<heap, slice_ix>>
    /\ UNCHANGED <<ctorVars, entry, arg, arg0, volume, slices, ret, ncalls,
                   earlier>>

\* lines 84-95
loop_single_volume_inference == LoopBody("infer")

\* lines 47-58
loop_single_volume_inference_unpadded == LoopBody("unpadded")

\* return slices
Return(name) ==
    /\ pc = "loop"
    /\ entry = name
    /\ slice_ix = heap[volume].shape[1]
    /\ pc' = "done"
    /\ ret' = slices
    /\ UNCHANGED <<ctorVars, heap, entry, arg, arg0, volume, slices, slice_ix,
                   opLog, ncalls, earlier>>

\* line 97
return_single_volume_inference == Return("infer")

\* line 60
return_single_volume_inference_unpadded == Return("unpadded")

\* the call is over: its frame is gone and the caller holds the mask it returned
caller_keeps_mask ==
    /\ pc \in {"done", "raised"}
    /\ pc' = "idle"
    /\ earlier' = IF pc = "done" THEN earlier \cup {ret} ELSE earlier
    /\ heap' = <<>>
    /\ entry' = "none"
    /\ arg' = NoRef
    /\ arg0' = NoArray
    /\ volume' = NoRef
    /\ slices' = NoRef
    /\ slice_ix' = 0
    /\ ret' = NoRef
    /\ opLog' = <<>>
    /\ UNCHANGED <<ctorVars, ncalls>>

\* between two calls the caller, who shares the model, puts it back in
\* training mode: model.train()
model_train ==
    /\ phase = "ready"
    /\ pc = "idle"
    /\ ~model.training
    /\ model' = [model EXCEPT !.training = TRUE]
    /\ UNCHANGED <<phase, self, given, ctorLog, raised, callVars>>

\* ---------------------------------------------------------- specification
InitNew ==
    /\ phase = "none"
    /\ self = NoSelf
    /\ model = NoModel
    /\ given = [path |-> NoPath, model |-> <<>>, device |-> "none", patch_size |-> 0]
    /\ ctorLog = <<>>
    /\ raised = "none"
    /\ heap = <<>>
    /\ pc = "idle"
    /\ entry = "none"
    /\ arg = NoRef
    /\ arg0 = NoArray
    /\ volume = NoRef
    /\ slices = NoRef
    /\ slice_ix = 0
    /\ ret = NoRef
    /\ opLog = <<>>
    /\ ncalls = 0
    /\ earlier = {}

\* construction alone, from the state before it
NextInit == UNetInferenceAgent_init

SpecInit == InitNew /\ [][NextInit]_vars

\* the state after a construction that succeeded, with any arguments; the
\* constructor's arguments and its call log are not kept once it has returned
Init ==
    \E path \in Paths, m \in ModelArgs, device \in Devices,
       patch_size \in 1..MaxP, w \in Weights :
       LET r == Construct(path, m, device, patch_size, w) IN
       /\ r.phase = "ready"
       /\ phase = r.phase
       /\ self = r.self
       /\ model = r.model
       /\ raised = r.raised
       /\ given = [path |-> NoPath, model |-> <<>>, device |-> "none",
                   patch_size |-> 0]
       /\ ctorLog = <<>>
       /\ heap = <<>>
       /\ pc = "idle"
       /\ entry = "none"
       /\ arg = NoRef
       /\ arg0 = NoArray
       /\ volume = NoRef
       /\ slices = NoRef
       /\ slice_ix = 0
       /\ ret = NoRef
       /\ opLog = <<>>
       /\ ncalls = 0
       /\ earlier = {}

Next ==
    \/ call_single_volume_inference
    \/ loop_single_volume_inference
    \/ return_single_volume_inference
    \/ call_single_volume_inference_unpadded
    \/ loop_single_volume_inference_unpadded
    \/ return_single_volume_inference_unpadded
    \/ caller_keeps_mask
    \/ model_train

Spec == Init /\ [][Next]_vars

\* ------------------------------------------------------------- properties
Returned(name) == pc = "done" /\ entry = name

Depth == arg0.shape[1]

\* the operations made on the model during the call, in order
Ops == [k \in 1..Len(opLog) |-> opLog[k].op]

\* the operations single_volume_inference makes on a volume of depth D
InferOps(D) == <<"eval">> \o [k \in 1..D |-> "forward"]

AllValues(a) == {a.at[i] : i \in Idx(a.shape)}

\* C1: single_volume_inference_unpadded(volume) is single_volume_inference of
\* the conformed volume: when it returns it has made the same operations on the
\* model (the evaluation-mode toggle, then one forward pass per slice) and it
\* returns the same mask.
C1_UnpaddedIsInferOfConformed ==
    Returned("unpadded") =>
        LET conformed == med_reshape(arg0, new_shape(arg0, self.patch_size)) IN
        /\ Ops = InferOps(conformed.shape[1])
        /\ heap[ret] = InferMask(model, conformed)

\* C2: no forward pass of an inference call, through either entry point, runs
\* with the model in training mode, whatever mode the model was left in.
C2_NoForwardInTrainingMode ==
    \A k \in 1..Len(opLog) : opLog[k].op = "forward" => ~opLog[k].training

\* C3: single_volume_inference_unpadded never raises and, for a volume of shape
\* [D,H,W] and patch size P, returns a mask of shape exactly [D,P,P].
C3_UnpaddedShape ==
    entry = "unpadded" =>
        /\ pc # "raised"
        /\ pc = "done" =>
              heap[ret].shape = <<Depth, self.patch_size, self.patch_size>>

\* a call of single_volume_inference_unpadded has returned the mask of a volume
\* of the largest depth whose height exceeds the patch size and differs from
\* its depth
C3_Witness ==
    /\ Returned("unpadded")
    /\ Depth = MaxD
    /\ arg0.shape[2] > self.patch_size
    /\ Depth # self.patch_size

\* a call of single_volume_inference_unpadded has returned for a volume of
\* depth 0
C3_WitnessEmpty == Returned("unpadded") /\ Depth = 0

\* C4: every value of a returned mask is a class index in 0..num_classes-1.
C4_LabelsInRange ==
    pc = "done" =>
        \A x \in AllValues(heap[ret]) : x \in 0..(model.num_classes - 1)

\* C5: the mask single_volume_inference returns is a function of the model's
\* parameters and of the volume alone: it is the same whatever calls were made
\* before (through either entry point, on any volume) and whatever mode they or
\* the caller left the model in, so two calls on one volume return equal masks.
C5_InferDeterministic ==
    Returned("infer") =>
        heap[ret] = InferMask([model EXCEPT !.training = FALSE], arg0)

\* a second call, of single_volume_inference on a volume with slices, has
\* returned, and it found the model in training mode when it began
C5_Witness ==
    /\ Returned("infer")
    /\ ncalls >= 2
    /\ earlier # {}
    /\ Depth >= 1
    /\ opLog[1].training

\* C6: the conforming step of single_volume_inference_unpadded maps a volume V
\* of shape [D,H,W] to one of shape [D,P,P] holding V[d,y,x] wherever y < min(H,P)
\* and x < min(W,P), and 0 everywhere else.
C6_Conformed ==
    (entry = "unpadded" /\ pc # "idle") =>
        LET P == self.patch_size
            H == arg0.shape[2]
            W == arg0.shape[3]
            result == heap[volume]
        IN  /\ result.shape = <<Depth, P, P>>
            /\ \A i \in Idx(result.shape) :
                  result.at[i] =
                      IF i[2] < H /\ i[2] < P /\ i[3] < W /\ i[3] < P
                      THEN arg0.at[i] ELSE 0

\* a volume of the largest depth with non-zero voxels was conformed, padded
\* along its height and unchanged along its width
C6_WitnessPad ==
    /\ entry = "unpadded" /\ pc = "loop"
    /\ Depth = MaxD
    /\ arg0.shape[2] < self.patch_size
    /\ arg0.shape[3] = self.patch_size
    /\ \E x \in AllValues(arg0) : x # 0

\* a volume with non-zero voxels was conformed, cropped along its width
C6_WitnessCrop ==
    /\ entry = "unpadded" /\ pc = "loop"
    /\ Depth >= 1
    /\ arg0.shape[3] > self.patch_size
    /\ \E x \in AllValues(arg0) : x # 0

\* the agent's attributes other than the model's mode
Configuration ==
    <<self, model.num_classes, model.weights, model.device>>

\* C7 (state part): during and after a call the caller's volume has the shape
\* and values it had when the call began, and the returned mask is an array
\* allocated by this call: it is not the caller's volume and not a mask an
\* earlier call returned.
C7_Frame ==
    /\ pc # "idle" => heap[arg] = arg0
    /\ pc = "done" =>
          /\ ret # arg
          /\ ret \notin earlier
          /\ ret[1] = ncalls

\* C7: neither entry point mutates the caller's volume, the mask returned is
\* freshly allocated, and the agent retains nothing of a call: no step of an
\* inference call changes an attribute of the agent other than the model's mode.
C7_FrameAndNoRetention ==
    [](C7_Frame) /\ [][Configuration' = Configuration]_vars

\* a second call has returned a mask with a non-zero label while the caller
\* still holds the mask of the first
C7_Witness ==
    /\ pc = "done"
    /\ earlier # {}
    /\ Depth >= 1
    /\ \E x \in AllValues(heap[ret]) : x # 0

\* the volume of depth 1 made of slice ix of v alone
SingleSlice(v, ix) ==
    Array(<<1>> \o Tail(v.shape),
          [i \in Idx(<<1>> \o Tail(v.shape)) |-> v.at[<<ix>> \o Tail(i)]])

\* the label map of shape src as it lands in an output slice of shape dst
Landed(labels, dst) ==
    Array(dst, [j \in Idx(dst) |-> labels.at[BroadcastIdx(labels.shape, dst, j)]])

\* C8: __init__ creates the default 3-class network if and only if no model is
\* supplied; it loads parameters if and only if a non-empty path is given, into
\* the model in use and before the model is moved to the device; and when the
\* load fails the exception reaches the caller, there is no agent, and the model
\* was never moved to the device.
C8_Construction ==
    phase # "none" =>
        LET none    == given.model = <<>>
            inUse   == IF none THEN DefaultClasses ELSE given.model[1].num_classes
            path    == given.path
            fails   == path.given /\ (~path.exists \/ path.num_classes # inUse)
            At(e)   == {k \in 1..Len(ctorLog) : ctorLog[k] = e}
        IN  /\ (At("UNet") # {}) <=> none
            /\ model.num_classes = inUse
            /\ (At("load_state_dict") # {}) <=> path.given
            /\ \A l \in At("load_state_dict"), t \in At("to") : l < t
            /\ Cardinality(At("to")) <= 1
            /\ fails =>
                  /\ phase = "failed"
                  /\ raised # "none"
                  /\ self = NoSelf
                  /\ At("to") = {}
                  /\ model.device = "cpu"
            /\ ~fails =>
                  /\ phase = "ready"
                  /\ raised = "none"
                  /\ self = [patch_size |-> given.patch_size, device |-> given.device]
                  /\ At("to") = {Len(ctorLog)}
                  /\ model.device = given.device
                  /\ path.given => model.weights = path.weights
                  /\ (~path.given /\ ~none) => model.weights = given.model[1].weights

\* a construction with a supplied model failed on parameters of another
\* architecture
C8_WitnessFailed ==
    /\ phase = "failed"
    /\ given.model # <<>>
    /\ given.path.exists
    /\ raised = "RuntimeError"

\* a construction created the default network and loaded parameters into it
C8_WitnessLoaded ==
    /\ phase = "ready"
    /\ ctorLog = <<"UNet", "load_state_dict", "to">>

\* C9: in a call of single_volume_inference the model is put in evaluation
\* mode and then run once on each of the slices 0, 1, ... in increasing order;
\* the label map of the pass on slice i, which depends on slice i of the input
\* alone, is in output slice i, and the slices not yet reached are still zero;
\* when the call returns the passes are exactly those on slices 0..D-1 (none
\* for D = 0) and the call never raises.
C9_SliceLoop ==
    entry = "infer" =>
        /\ pc \in {"loop", "done"}
        /\ pc = "done" => slice_ix = Depth
        /\ Len(opLog) = slice_ix + 1
        /\ opLog[1].op = "eval"
        /\ \A i \in 0..(slice_ix - 1) :
              LET e == opLog[i + 2] IN
              /\ e.op = "forward"
              /\ e.ix = i
              /\ e.labels = SliceLabels(model, 0, SingleSlice(arg0, i), 0)
              /\ Slice2D(heap[slices], i) = Landed(e.labels, Tail(arg0.shape))
        /\ \A i \in slice_ix..(Depth - 1) :
              Slice2D(heap[slices], i) = np_zeros(Tail(arg0.shape))
        /\ heap[slices].shape = arg0.shape

\* single_volume_inference has returned the mask of a volume of the largest
\* depth whose slices got different label maps
C9_Witness ==
    /\ Returned("infer")
    /\ Depth = MaxD
    /\ Depth >= 2
    /\ Slice2D(heap[ret], 0) # Slice2D(heap[ret], Depth - 1)

\* single_volume_inference has returned for a volume of depth 0
C9_WitnessEmpty == Returned("infer") /\ Depth = 0 /\ Ops = <<"eval">>

ZeroSlice(v, k) == \A x \in AllValues(Slice2D(v, k)) : x = 0

\* the volumes that differ from v at most in slice k, where their maximum is
\* not 0
Repaired(v, k) ==
    {u \in Volumes :
        /\ u.shape = v.shape
        /\ np_max(Slice2D(u, k)) # 0
        /\ \A j \in 0..(v.shape[1] - 1) : j # k => Slice2D(u, j) = Slice2D(v, j)}

\* C10: an all-zero slice k does not make single_volume_inference raise or
\* stop: the forward pass still runs on every slice, the mask returned has the
\* input's shape, and every output slice other than k is what it would be if
\* slice k were not degenerate.
C10_ZeroSlice ==
    \A k \in 0..(Depth - 1) :
        (entry = "infer" /\ ZeroSlice(arg0, k)) =>
            /\ pc # "raised"
            /\ pc = "done" =>
                  /\ heap[ret].shape = arg0.shape
                  /\ \A i \in 0..(Depth - 1) :
                        \E n \in 1..Len(opLog) :
                            opLog[n].op = "forward" /\ opLog[n].ix = i
                  /\ \A u \in Repaired(arg0, k) :
                        \A j \in 0..(Depth - 1) :
                            j # k =>
                                Slice2D(heap[ret], j) =
                                    Slice2D(InferMask(model, u), j)

\* single_volume_inference has returned for a volume whose first slice is all
\* zero and whose last slice is not, and that slice got a non-zero label
C10_Witness ==
    /\ Returned("infer")
    /\ Depth >= 2
    /\ ZeroSlice(arg0, 0)
    /\ ~ZeroSlice(arg0, Depth - 1)
    /\ Repaired(arg0, 0) # {}
    /\ \E x \in AllValues(Slice2D(heap[ret], Depth - 1)) : x # 0

====
